---- MODULE Spec2Model ----
(***************************************************************************)
(* Model of the structural ML classification service:                      *)
(*   deployment/api_server.py   the serving process (one asyncio event     *)
(*                              loop), its retraining job and override     *)
(*                              store                                      *)
(*   deployment/train_model.py  EnsembleMLTrainer (the live model)         *)
(*   deployment/model_utils.py  ModelValidator, ModelMonitor               *)
(*                                                                         *)
(* Every endpoint is an `async def` without an await in its body, and the  *)
(* retraining job retrain_with_user_feedback is an `async def` background  *)
(* task without an await: a handler runs to completion on the event loop,  *)
(* and once the job has begun no handler runs until it has ended.  The job *)
(* is modelled step by step (task.pc) so that every assignment to          *)
(* retraining_status is a state; handlers are guarded by LoopFree.         *)
(***************************************************************************)
EXTENDS Integers, Sequences, FiniteSets, TLC

\* ---------------------------------------------------------------- bounds
MaxOverrides == 1
MaxTasks == 2
MaxHistory == 2
MaxLogs == 4
MaxStored == 11
MaxMembers == 2
MaxWindow == 11
MaxCutoff == 1
MaxPrepared == 2
MaxTargets == 4
ProbabilityUnits == 8

\* ----------------------------------------------------------------- state
VARIABLES
    retraining_status,        \* api_server.retraining_status (a dict)
    ml_trainer,               \* api_server.ml_trainer: reference to the live EnsembleMLTrainer
    trainers,                 \* the EnsembleMLTrainer objects, by object identity
    models_dir,               \* the files of trained_models/, as the trainer fields they hold
    user_override_database,   \* api_server.user_override_database (a list of dicts)
    background_tasks,         \* accepted BackgroundTasks that have not begun yet
    task,                     \* the running retrain_with_user_feedback coroutine
    response,                 \* the last response a handler (or a direct call) has given
    prediction_history,       \* ModelMonitor.prediction_history (a deque)
    history_maxlen,           \* its maxlen
    drift_detection,          \* ModelMonitor.drift_detection: model_type -> deque
    clock,                    \* datetime.now() as a logical clock
    logged,                   \* history: every record log_prediction was given, in call order
    writers                   \* the log_prediction calls in progress, by caller

serverVars == <<retraining_status, ml_trainer, trainers, models_dir,
                user_override_database, background_tasks, task>>

monitorVars == <<prediction_history, history_maxlen, drift_detection, clock, logged, writers>>

vars == <<retraining_status, ml_trainer, trainers, models_dir, user_override_database,
          background_tasks, task, response, prediction_history, history_maxlen,
          drift_detection, clock, logged, writers>>

\* ------------------------------------------------- EnsembleMLTrainer objects
ObjIds == {"trainer_a", "trainer_b"}

\* A trainer as the fields that matter to serving:
\*   member_ensemble, frame_system_ensemble   whether the ensemble is set
\*   building_type_ensemble   "none", or the feature schema it was trained on
\*   global_fit_stage, global_fit_schema   the stage whose training last
\*       fitted the shared global_feature_selector/global_scaler, and the
\*       schema they were fitted on: "unfit" (as constructed), "base" (the
\*       global features), "enhanced" (base plus frame_system_prob_* columns)
BlankTrainer ==
    [member_ensemble |-> FALSE, frame_system_ensemble |-> FALSE,
     building_type_ensemble |-> "none",
     global_fit_stage |-> "none", global_fit_schema |-> "unfit"]

\* The base corpus rows carry both label columns (prepare_training_data).
BaseCorpusColumns == {"frame_system", "building_type"}

train_member_classification_ensemble(t) ==
    [t EXCEPT !.member_ensemble = TRUE]

\* Stage 2 fits the shared selector/scaler on the base features.  Stage 4
\* refits them on the features it is given: the base features, plus one
\* probability column per frame-system class when self.frame_system_ensemble
\* is set.  Those probabilities are computed through the shared
\* selector/scaler, which raise unless they are fitted on the base schema.
train_global_classification_ensembles(t, columns) ==
    LET t1 == IF "frame_system" \in columns
              THEN [t EXCEPT !.frame_system_ensemble = TRUE,
                             !.global_fit_stage = "frame_system",
                             !.global_fit_schema = "base"]
              ELSE t
        raises == /\ "building_type" \in columns
                  /\ t1.frame_system_ensemble
                  /\ t1.global_fit_schema # "base"
        schema == IF t1.frame_system_ensemble THEN "enhanced" ELSE "base"
        t2 == IF "building_type" \in columns
              THEN [t1 EXCEPT !.building_type_ensemble = schema,
                              !.global_fit_stage = "building_type",
                              !.global_fit_schema = schema]
              ELSE t1
    IN  [raised |-> raises, trainer |-> IF raises THEN t1 ELSE t2]

\* predict_global_properties: the request's features (base schema) go through
\* the shared selector/scaler, which raise when unfitted or fitted on another
\* schema; each ensemble that is set then predicts from the same scaled
\* features.  The result has a FrameSystem / BuildingType key only for an
\* ensemble that is set; no frame-system probability is ever appended.
predict_global_properties(t) ==
    IF t.global_fit_schema # "base"
    THEN [raised |-> TRUE, FrameSystem |-> FALSE, BuildingType |-> FALSE]
    ELSE [raised |-> FALSE,
          FrameSystem |-> t.frame_system_ensemble,
          BuildingType |-> t.building_type_ensemble # "none"]

\* The names extract_global_features gives the global feature vector.
GlobalFeatureNames ==
    {"building_length", "building_width", "building_height", "plan_area", "building_volume",
     "height_class_low_rise", "height_class_mid_rise", "height_class_high_rise",
     "aspect_ratio_length_width", "aspect_ratio_length_height", "aspect_ratio_width_height",
     "floor_count", "max_height",
     "bay_size_x_avg", "bay_size_y_avg", "bay_size_x_std", "bay_size_y_std",
     "bay_count_x", "bay_count_y",
     "plan_centroid_offset", "plan_irregularity_indicator",
     "roof_slope_avg", "roof_slope_max", "roof_slope_std", "ridge_count",
     "max_span", "typical_span", "span_ratio",
     "bracing_ratio", "moment_joint_ratio",
     "node_count", "member_count", "member_node_ratio",
     "avg_node_connectivity", "max_node_connectivity",
     "has_moment_frame", "has_braced_frame", "has_truss_system", "has_cantilever"}

\* The names extract_member_features gives a member's feature vector.
MemberFeatureNames ==
    {"member_length", "horizontal_length", "elevation_change", "delta_x", "delta_y", "delta_z",
     "angle_from_horizontal", "angle_from_vertical", "slope",
     "start_elevation", "end_elevation", "avg_elevation", "relative_elevation",
     "relative_x_position", "relative_y_position", "floor_level",
     "slenderness_ratio", "is_compression_member", "is_flexural_member", "is_tension_member",
     "connected_members_count", "is_end_connection", "is_interior_connection",
     "start_fixity_score", "end_fixity_score", "avg_fixity",
     "is_vertical", "is_horizontal", "is_diagonal",
     "is_at_roof", "is_at_foundation", "is_at_eave",
     "member_type_beam", "member_type_column", "member_type_brace", "member_type_rafter",
     "member_type_purlin", "member_type_truss_chord", "member_type_truss_diagonal"}

\* The classes of frame_system_encoder.
FrameSystemClasses == {"Moment", "Braced"}

\* The columns of a feature schema: f'frame_system_prob_{class_name}' is
\* added per class for the enhanced one.
FeatureNames(schema) ==
    IF schema = "enhanced"
    THEN GlobalFeatureNames \cup {<<"frame_system_prob", c>> : c \in FrameSystemClasses}
    ELSE GlobalFeatureNames

\* The columns predict_global_properties passes to the ensembles:
\* pd.DataFrame([global_features]), whatever the trainer holds.
InferenceFeatureNames(t) ==
    FeatureNames("base")

\* trained_models/ as what its files hold.  member_ensemble.pkl and the other
\* member files are written together, as are an ensemble and its encoder;
\* global_scaler.pkl and global_feature_selector.pkl are written by every
\* save ("missing" before the first one).
EmptyModelsDir ==
    [member_ensemble |-> FALSE, frame_system_ensemble |-> FALSE,
     building_type_ensemble |-> "none",
     global_fit_stage |-> "none", global_fit_schema |-> "missing"]

\* save_models: an ensemble's files are written only when the ensemble is
\* set (else the files of an earlier save stay); the shared preprocessors
\* are always written.
save_models(t, dir) ==
    [member_ensemble |-> dir.member_ensemble \/ t.member_ensemble,
     frame_system_ensemble |-> dir.frame_system_ensemble \/ t.frame_system_ensemble,
     building_type_ensemble |-> IF t.building_type_ensemble # "none"
                                THEN t.building_type_ensemble
                                ELSE dir.building_type_ensemble,
     global_fit_stage |-> t.global_fit_stage,
     global_fit_schema |-> t.global_fit_schema]

\* What a save_models that raises part-way leaves: the files are written in
\* the order member, frame system, building type, shared preprocessors.
PartialSaves(t, dir) ==
    LET full == save_models(t, dir)
        d1 == [dir EXCEPT !.member_ensemble = full.member_ensemble]
        d2 == [d1 EXCEPT !.frame_system_ensemble = full.frame_system_ensemble]
        d3 == [d2 EXCEPT !.building_type_ensemble = full.building_type_ensemble]
    IN  {dir, d1, d2, d3, full}

\* load_models: the member files first (a missing file raises; the except
\* returns False with what was loaded so far), the frame-system and
\* building-type files when they exist, then the shared preprocessors.
load_models(t, dir) ==
    IF ~dir.member_ensemble
    THEN [loaded |-> FALSE, trainer |-> t]
    ELSE LET t1 == [t EXCEPT
                       !.member_ensemble = TRUE,
                       !.frame_system_ensemble = dir.frame_system_ensemble \/ @,
                       !.building_type_ensemble =
                           IF dir.building_type_ensemble # "none"
                           THEN dir.building_type_ensemble ELSE @]
         IN  IF dir.global_fit_schema = "missing"
             THEN [loaded |-> FALSE, trainer |-> t1]
             ELSE [loaded |-> TRUE,
                   trainer |-> [t1 EXCEPT !.global_fit_stage = dir.global_fit_stage,
                                          !.global_fit_schema = dir.global_fit_schema]]

\* train_model.main(): a full training saved to an empty directory.
FullTrainer ==
    train_global_classification_ensembles(
        train_member_classification_ensemble(BlankTrainer), BaseCorpusColumns).trainer

\* The directory the server starts with: empty, or as main() left it.
StartupModelsDirs == {EmptyModelsDir, save_models(FullTrainer, EmptyModelsDir)}

\* Mutant: the run trains the live object in place.
NewTrainerObject_InPlace ==
    ml_trainer

\* new_trainer = EnsembleMLTrainer(): a new object, never the live one.
NewTrainerObject ==
    CHOOSE o \in ObjIds : o # ml_trainer

\* ----------------------------------------------------- retraining_status
IdleStatus ==
    [is_retraining |-> FALSE, progress |-> 0, status |-> "idle",
     current_stage |-> "none", error |-> FALSE]

StartingStatus ==
    [is_retraining |-> TRUE, progress |-> 0, status |-> "starting",
     current_stage |-> "none", error |-> FALSE]

\* Mutant: the job goes straight to training_models.
PreparingStatus_Skipped(s) ==
    [s EXCEPT !.status = "training_models", !.progress = 10]

PreparingStatus(s) ==
    [s EXCEPT !.status = "preparing_data", !.progress = 10]

TrainingStatus(s) ==
    [s EXCEPT !.status = "training_models", !.progress = 30]

MemberStageStatus(s) ==
    [s EXCEPT !.current_stage = "member_classification", !.progress = 50]

\* Mutant: the building stage reports less progress than the member stage.
BuildingStageStatus_ProgressReset(s) ==
    [s EXCEPT !.current_stage = "building_classification", !.progress = 20]

BuildingStageStatus(s) ==
    [s EXCEPT !.current_stage = "building_classification", !.progress = 70]

SavingStatus(s) ==
    [s EXCEPT !.status = "saving_models", !.progress = 90]

\* Mutant: the completed dict keeps the in-progress flag.
CompletedStatus_FlagLeftSet ==
    [is_retraining |-> TRUE, progress |-> 100, status |-> "completed",
     current_stage |-> "none", error |-> FALSE]

CompletedStatus ==
    [is_retraining |-> FALSE, progress |-> 100, status |-> "completed",
     current_stage |-> "none", error |-> FALSE]

\* Mutant: the except branch records no message.
ErrorStatus_NoMessage ==
    [is_retraining |-> FALSE, progress |-> 0, status |-> "error",
     current_stage |-> "none", error |-> FALSE]

ErrorStatus ==
    [is_retraining |-> FALSE, progress |-> 0, status |-> "error",
     current_stage |-> "none", error |-> TRUE]

\* Mutant: the guard is dropped.
RetrainRejected_Never(s) ==
    FALSE

\* The guard of /retrain-models.
RetrainRejected(s) ==
    s.is_retraining

\* request.modelTypes or ["member", "building"]: None and [] both give the default.
EffectiveModelTypes(modelTypes) ==
    IF modelTypes = {} THEN {"member", "building"} ELSE modelTypes

\* The /retrain-models requests tried: modelTypes absent or [] is {}.
RetrainRequests ==
    { [includeOverrides |-> TRUE, modelTypes |-> {}],
      [includeOverrides |-> FALSE, modelTypes |-> {}],
      [includeOverrides |-> TRUE, modelTypes |-> {"member"}],
      [includeOverrides |-> TRUE, modelTypes |-> {"building"}],
      [includeOverrides |-> TRUE, modelTypes |-> {"frame_system"}] }

\* --------------------------------------------------------- override store
\* An override as the fields the retraining run reads: the keys present in
\* user_correction and in model_context, and the correction type.
\* "member_not_a_dict" is a "member" entry whose value is not a dict.
OverrideKinds ==
    { [correction_type |-> "MEMBER_TAG", user_correction |-> {"tag"}, model_context |-> {"member"}],
      [correction_type |-> "MEMBER_TAG", user_correction |-> {"tag"}, model_context |-> {"member_not_a_dict"}],
      [correction_type |-> "BUILDING_TYPE", user_correction |-> {"type"}, model_context |-> {}],
      [correction_type |-> "GEOMETRY", user_correction |-> {"type"}, model_context |-> {"geometry"}] }

\* analyze_override_for_learning
analyze_override_for_learning(correction_type) ==
    IF correction_type = "BUILDING_TYPE" THEN "Building type correction"
    ELSE IF correction_type = "MEMBER_TAG" THEN "Member tag correction"
    ELSE "General correction"

\* Mutant: the record is stored as already processed.
OverrideRecord_Processed(kind, id) ==
    [override_id |-> id,
     correction_type |-> kind.correction_type, user_correction |-> kind.user_correction,
     model_context |-> kind.model_context, processed |-> TRUE,
     learning_impact |-> analyze_override_for_learning(kind.correction_type)]

\* The record submit_manual_override stores; id stands for str(uuid.uuid4()).
OverrideRecord(kind, id) ==
    [override_id |-> id,
     correction_type |-> kind.correction_type, user_correction |-> kind.user_correction,
     model_context |-> kind.model_context, processed |-> FALSE,
     learning_impact |-> analyze_override_for_learning(kind.correction_type)]

\* "retraining_threshold": 10
RetrainingThreshold == 10

\* What get_learning_status reports of the store.
get_learning_status(overrides) ==
    [total_overrides |-> Len(overrides),
     ready_for_retraining |-> Len(overrides) >= RetrainingThreshold]

\* extract_features_from_context: None unless geometry, members or nodes is there.
extract_features_from_context(model_context) ==
    model_context \cap {"geometry", "members", "nodes"} # {}

\* extract_member_features_from_context: the defaults it adds make the
\* feature dict non-empty; None when reading the "member" entry raises.
extract_member_features_from_context(model_context) ==
    "member_not_a_dict" \notin model_context

\* Whether the loop of prepare_enhanced_training_data appends a row for o.
SynthesizesRow(o) ==
    IF o.correction_type = "BUILDING_TYPE" /\ ~o.processed
    THEN /\ "type" \in o.user_correction
         /\ o.model_context # {}
         /\ extract_features_from_context(o.model_context)
    ELSE IF o.correction_type = "MEMBER_TAG" /\ ~o.processed
    THEN /\ "tag" \in o.user_correction
         /\ o.model_context # {}
         /\ extract_member_features_from_context(o.model_context)
    ELSE FALSE

\* The keys extract_features_from_context puts in the feature dict.
context_feature_names(model_context) ==
    (IF "geometry" \in model_context
     THEN {"building_length", "building_width", "building_height", "eave_height", "roof_slope"}
     ELSE {})
        \cup (IF "members" \in model_context
              THEN {"member_count", "column_count", "beam_count", "brace_count"}
              ELSE {})
        \cup (IF "nodes" \in model_context THEN {"node_count"} ELSE {})

\* The keys extract_member_features_from_context puts in the feature dict:
\* two read from the "member" entry, and the four defaults.
member_context_feature_names(model_context) ==
    (IF "member" \in model_context THEN {"member_length", "member_angle"} ELSE {})
        \cup {"angle_from_horizontal", "relative_elevation", "is_vertical", "is_horizontal"}

\* A row of the base corpus (prepare_training_data): the label is read from
\* the sample model, the features come from the feature extractor.
BaseRow(stage) ==
    [override |-> 0,
     label_column |-> IF stage = "global" THEN "building_type" ELSE "member_role",
     label |-> IF stage = "global" THEN <<"sample", "buildingType">> ELSE <<"sample", "role">>,
     features |-> IF stage = "global" THEN GlobalFeatureNames ELSE MemberFeatureNames]

\* The row the loop appends for overrides[i]: the label is the value under
\* "type" / "tag" of user_correction, the features those read off model_context.
SynthesizedRow(o, i) ==
    IF o.correction_type = "BUILDING_TYPE"
    THEN [override |-> i, label_column |-> "building_type",
          label |-> <<"user_correction", "type">>,
          features |-> context_feature_names(o.model_context)]
    ELSE [override |-> i, label_column |-> "member_role",
          label |-> <<"user_correction", "tag">>,
          features |-> member_context_feature_names(o.model_context)]

\* The overrides (by position) prepare_enhanced_training_data turns into rows.
SynthesizedRows(overrides) ==
    {i \in 1..Len(overrides) : SynthesizesRow(overrides[i])}

\* The rows the loop appends to the frame of one stage, in list order.
AppendedRows(overrides, correction_type) ==
    LET positions == SelectSeq([i \in 1..Len(overrides) |-> i],
                               LAMBDA i : /\ overrides[i].correction_type = correction_type
                                          /\ SynthesizesRow(overrides[i]))
    IN  [k \in 1..Len(positions) |-> SynthesizedRow(overrides[positions[k]], positions[k])]

\* Where prepare_enhanced_training_data can raise: nowhere, inside its try
\* (the except branch then loads the base corpus again), or in the try and
\* again in the except branch (the exception leaves the function).
PrepareOutcomes == {"returns", "try_raises", "fallback_raises"}

\* prepare_enhanced_training_data: the two frames, each the base corpus
\* (one row stands for it) followed by the appended rows.
prepare_enhanced_training_data(overrides, outcome) ==
    IF outcome = "returns"
    THEN [raised |-> FALSE, fallback |-> FALSE,
          global_df |-> <<BaseRow("global")>> \o AppendedRows(overrides, "BUILDING_TYPE"),
          member_df |-> <<BaseRow("member")>> \o AppendedRows(overrides, "MEMBER_TAG")]
    ELSE IF outcome = "try_raises"
    THEN [raised |-> FALSE, fallback |-> TRUE,
          global_df |-> <<BaseRow("global")>>, member_df |-> <<BaseRow("member")>>]
    ELSE [raised |-> TRUE, fallback |-> TRUE, global_df |-> << >>, member_df |-> << >>]

\* for override in user_override_database: override["processed"] = True
MarkProcessed(overrides) ==
    [i \in 1..Len(overrides) |-> [overrides[i] EXCEPT !.processed = TRUE]]

\* ------------------------------------------------------------ ModelMonitor
\* ModelMonitor.__init__(self, max_history: int = 10000)
DefaultMaxHistory == 10000

ModelTypes == {"building_classification", "member_classification"}

\* What a caller passes to log_prediction: prediction, confidence (percent), actual.
LogInputs ==
    { [model_type |-> "building_classification", prediction |-> "HANGAR", confidence |-> 90, actual |-> "None"],
      [model_type |-> "member_classification", prediction |-> "Column", confidence |-> 90, actual |-> "Column"],
      [model_type |-> "member_classification", prediction |-> "Beam", confidence |-> 50, actual |-> "Column"] }

PredictionRecord(in, timestamp) ==
    [timestamp |-> timestamp, model_type |-> in.model_type, prediction |-> in.prediction,
     confidence |-> in.confidence, actual |-> in.actual]

DriftRecord(in, timestamp) ==
    [timestamp |-> timestamp, prediction |-> in.prediction, confidence |-> in.confidence]

\* Mutant: appendleft.
DequeAppend_Left(q, x, maxlen) ==
    IF Len(q) = maxlen THEN <<x>> \o SubSeq(q, 1, Len(q) - 1) ELSE <<x>> \o q

\* Mutant: a full deque refuses the new item instead of dropping the oldest.
DequeAppend_DropsNewest(q, x, maxlen) ==
    IF Len(q) >= maxlen THEN q ELSE Append(q, x)

\* collections.deque(maxlen=maxlen).append(x): a full deque drops its leftmost item.
DequeAppend(q, x, maxlen) ==
    IF maxlen = 0 THEN q
    ELSE IF Len(q) = maxlen THEN Append(Tail(q), x)
    ELSE Append(q, x)

\* collections.deque().append(x): no maxlen.
UnboundedAppend(q, x) ==
    Append(q, x)

\* Mutant: the window is ignored.
RecentRecords_All(records, cutoff_time) ==
    records

\* The records of a buffer that are in the window: record['timestamp'] > cutoff_time.
RecentRecords(records, cutoff_time) ==
    SelectSeq(records, LAMBDA record : record.timestamp > cutoff_time)

RECURSIVE SeqSum(_)
SeqSum(xs) ==
    IF xs = << >> THEN 0 ELSE Head(xs) + SeqSum(Tail(xs))

\* Mutant: records without ground truth are counted too.
LabeledRecords_Unlabeled(records, model_type, cutoff_time) ==
    SelectSeq(records, LAMBDA record : /\ record.model_type = model_type
                                       /\ record.timestamp > cutoff_time)

\* The recent_predictions of calculate_recent_accuracy.
LabeledRecords(records, model_type, cutoff_time) ==
    SelectSeq(records, LAMBDA record : /\ record.model_type = model_type
                                       /\ record.timestamp > cutoff_time
                                       /\ record.actual # "None")

\* calculate_recent_accuracy: None without a labeled record of the model
\* type in the window, else correct_predictions / len(recent_predictions),
\* kept as the two integers.
calculate_recent_accuracy(mon, model_type, cutoff_time) ==
    LET recent_predictions ==
            LabeledRecords(mon.prediction_history, model_type, cutoff_time)
        correct_predictions ==
            Len(SelectSeq(recent_predictions,
                          LAMBDA record : record.prediction = record.actual))
    IN  IF recent_predictions = << >>
        THEN [is_none |-> TRUE, correct |-> 0, labeled |-> 0]
        ELSE [is_none |-> FALSE, correct |-> correct_predictions,
              labeled |-> Len(recent_predictions)]

\* if len(recent_records) < 10
MinDriftSamples == 10

\* avg_confidence < 0.7, in percent
LowConfidencePercent == 70

\* confidence_std > 0.3, in percent
HighStdPercent == 30

\* dominant_prediction > 0.9, in percent
DominantPercent == 90

\* detect_performance_drift, with confidences in percent: np.mean is
\* sum / n and np.std the population standard deviation, compared without
\* division or square root.
detect_performance_drift(mon, model_type, cutoff_time) ==
    LET recent_records == RecentRecords(mon.drift_detection[model_type], cutoff_time)
        n == Len(recent_records)
        confidences == [i \in 1..n |-> recent_records[i].confidence]
        squares == [i \in 1..n |-> recent_records[i].confidence * recent_records[i].confidence]
        prediction_counts ==
            [pred \in {recent_records[i].prediction : i \in 1..n} |->
                Cardinality({i \in 1..n : recent_records[i].prediction = pred})]
        low == SeqSum(confidences) < LowConfidencePercent * n
        high == n * SeqSum(squares) - SeqSum(confidences) * SeqSum(confidences)
                    > HighStdPercent * HighStdPercent * n * n
        skew == \E pred \in DOMAIN prediction_counts :
                    (\A other \in DOMAIN prediction_counts :
                        prediction_counts[other] <= prediction_counts[pred])
                    /\ 100 * prediction_counts[pred] > DominantPercent * n
        alerts == (IF low THEN {"Low average confidence"} ELSE {})
                    \cup (IF high THEN {"High confidence variance"} ELSE {})
                    \cup (IF skew THEN {"Prediction distribution skew"} ELSE {})
    IN  IF n < MinDriftSamples
        THEN [drift_detected |-> FALSE, reason |-> "Insufficient data", alerts |-> {}]
        ELSE [drift_detected |-> alerts # {}, reason |-> "evaluated", alerts |-> alerts]

\* The callers of log_prediction that may be inside the call at once.
WriterIds == {"w1", "w2"}

NoCall ==
    [pc |-> "none", in |-> "none", timestamp |-> 0]

\* ------------------------------------------------------------ event loop
NoTask ==
    [pc |-> "none", include_overrides |-> FALSE, model_types |-> {},
     new_trainer |-> "none", rows |-> {}, data_prep |-> "none"]

LoopFree ==
    task.pc = "none"

\* The positions of retrain_with_user_feedback.
RunPcs == {"prepare", "train_member", "train_building", "mark_saving", "save"}

\* The accepted tasks that are retraining jobs.
RetrainTasks(tasks) ==
    SelectSeq(tasks, LAMBDA t : t.func = "retrain_with_user_feedback")

Reply(op, code, detail) ==
    [op |-> op, code |-> code, detail |-> detail]

\* --------------------------------------------------------- ModelValidator
\* The public methods of the ModelValidator that api_server imports
\* (deployment/model_utils.py).  It has no validate_model_input.
ModelValidatorMethods == {"validate_structural_model", "validate_prediction_input"}

\* A /classify-building request: whether the model has nodes and members
\* (extract_global_features returns {} without either) and what validation
\* of it would say.
BuildingRequests ==
    { [valid |-> TRUE, has_nodes |-> TRUE, has_members |-> TRUE],
      [valid |-> TRUE, has_nodes |-> TRUE, has_members |-> FALSE],
      [valid |-> FALSE, has_nodes |-> FALSE, has_members |-> FALSE] }

\* extract_geometric_features -> extract_global_features: {} without nodes or members.
extract_geometric_features(request) ==
    request.has_nodes /\ request.has_members

\* The body of classify_building after `if not ml_trainer` (the trainer object
\* is always truthy once lifespan has run).  Every exception of the try block,
\* the HTTPException(400)s included, is caught by `except Exception` and
\* answered as 500 "Classification error".  The call of
\* model_validator.validate_model_input raises AttributeError when the
\* validator has no such method.
classify_building(t, request) ==
    IF "validate_model_input" \notin ModelValidatorMethods
    THEN Reply("classify_building", 500, "Classification error")
    ELSE IF ~request.valid
    THEN Reply("classify_building", 500, "Classification error")
    ELSE IF ~extract_geometric_features(request)
    THEN Reply("classify_building", 500, "Classification error")
    ELSE IF predict_global_properties(t).raised
    THEN Reply("classify_building", 500, "Classification error")
    ELSE IF predict_global_properties(t).BuildingType
    THEN Reply("classify_building", 200, "BuildingType of the ensemble")
    ELSE Reply("classify_building", 200, "TEMPORARY_STRUCTURE 0.5")

\* A member of a request: whether its startNodeId and endNodeId name a node.
MemberShapes ==
    { [start_node |-> TRUE, end_node |-> TRUE],
      [start_node |-> TRUE, end_node |-> FALSE],
      [start_node |-> FALSE, end_node |-> TRUE] }

\* Non-empty member lists up to MaxMembers; a member's id is its position.
MemberLists ==
    UNION {[1..n -> MemberShapes] : n \in 1..MaxMembers}

\* The /classify-members requests tried (memberIds absent): a model with
\* nodes and members, and a model with neither.
MemberRequests ==
    {[has_nodes |-> TRUE, members |-> ms] : ms \in MemberLists}
        \cup {[has_nodes |-> FALSE, members |-> << >>]}

\* ModelValidator.validate_model_input of ml_pipeline/model_utils.py: nodes
\* and members are non-empty and every member's node ids name a node.
validate_model_input(request) ==
    /\ request.has_nodes
    /\ request.members # << >>
    /\ \A i \in 1..Len(request.members) :
          request.members[i].start_node /\ request.members[i].end_node

\* extract_member_features: {} (FALSE) unless both nodes are found.
extract_member_features(member) ==
    member.start_node /\ member.end_node

\* The members (by position) whose feature dict is appended to member_features.
FeatureMembers(members) ==
    {i \in 1..Len(members) : extract_member_features(members[i])}

\* member_features, as the member each row was extracted from.
member_features(members) ==
    [k \in 1..Cardinality(FeatureMembers(members)) |->
        CHOOSE i \in FeatureMembers(members) :
            Cardinality({j \in FeatureMembers(members) : j < i}) = k - 1]

\* predict_member_roles raises ValueError without the member ensemble.
predict_member_roles(t) ==
    [raised |-> ~t.member_ensemble]

\* deployment, lines 512-520: zip(target_members, predictions) gives the k-th
\* target member the prediction of the k-th row of member_features, and
\* features_dict[member['id']] = member_features[k].
member_tags(members) ==
    [k \in 1..Len(member_features(members)) |->
        [member |-> k, features_of |-> member_features(members)[k]]]

\* ml_pipeline, lines 337-355: member_ids is appended to with member_features,
\* and zip(member_ids, predictions, member_features) keeps the three aligned.
pipeline_member_tags(members) ==
    [k \in 1..Len(member_features(members)) |->
        [member |-> member_features(members)[k],
         features_of |-> member_features(members)[k]]]

\* The body of classify_members after `if not ml_trainer`.  memberTags is
\* built from zip(target_members, predictions): the k-th target member is
\* given the prediction of the k-th row of member_features.
classify_members(t, request) ==
    IF \/ "validate_model_input" \notin ModelValidatorMethods
       \/ ~validate_model_input(request)
       \/ member_features(request.members) = << >>
       \/ predict_member_roles(t).raised
    THEN [code |-> 500, detail |-> "Classification error", memberTags |-> << >>]
    ELSE [code |-> 200, detail |-> "memberTags", memberTags |-> member_tags(request.members)]

\* What classify_members passes to log_prediction, one call per tag.
MemberLogInputs(reply) ==
    [k \in 1..Len(reply.memberTags) |->
        [model_type |-> "member_classification", prediction |-> "role of the ensemble",
         confidence |-> 90, actual |-> "None"]]

\* What classify_building passes to log_prediction.
BuildingLogInput(reply) ==
    [model_type |-> "building_classification", prediction |-> reply.detail,
     confidence |-> 50, actual |-> "None"]

Init ==
    /\ retraining_status = IdleStatus
    /\ ml_trainer = "trainer_a"
    /\ models_dir \in StartupModelsDirs
    /\ trainers = [o \in ObjIds |-> IF o = "trainer_a"
                                    THEN load_models(BlankTrainer, models_dir).trainer
                                    ELSE BlankTrainer]
    /\ user_override_database = << >>
    /\ background_tasks = << >>
    /\ task = NoTask
    /\ response = Reply("none", 0, "none")
    /\ prediction_history = << >>
    /\ history_maxlen = DefaultMaxHistory
    /\ drift_detection = [m \in ModelTypes |-> << >>]
    /\ clock = 0
    /\ logged = << >>
    /\ writers = [w \in WriterIds |-> NoCall]

\* POST /retrain-models.  The 409 is raised inside the try and caught by its
\* `except Exception`, which answers 500.
RetrainModels(request) ==
    /\ LoopFree
    /\ IF RetrainRejected(retraining_status)
       THEN /\ response' = Reply("retrain_models", 500, "Retraining already in progress")
            /\ UNCHANGED <<retraining_status, background_tasks>>
       ELSE /\ Len(background_tasks) < MaxTasks
            /\ retraining_status' = StartingStatus
            /\ background_tasks' = Append(background_tasks,
                   [func |-> "retrain_with_user_feedback",
                    include_overrides |-> request.includeOverrides,
                    model_types |-> EffectiveModelTypes(request.modelTypes)])
            /\ response' = Reply("retrain_models", 200, "started")
    /\ UNCHANGED <<ml_trainer, trainers, models_dir, user_override_database, task>>
    /\ UNCHANGED monitorVars

\* GET /retrain-status
GetRetrainStatus ==
    /\ LoopFree
    /\ response' = Reply("retrain_status", 200, retraining_status.status)
    /\ UNCHANGED <<retraining_status, ml_trainer, trainers, models_dir,
                   user_override_database, background_tasks, task>>
    /\ UNCHANGED monitorVars

\* The body of submit_manual_override: the threshold branch only logs.
submit_manual_override(kind) ==
    /\ LoopFree
    /\ user_override_database' =
           Append(user_override_database, OverrideRecord(kind, Len(user_override_database) + 1))
    /\ response' = Reply("manual_override", 200, "recorded")
    /\ UNCHANGED <<retraining_status, ml_trainer, trainers, models_dir, background_tasks, task>>
    /\ UNCHANGED monitorVars

\* POST /manual-override
SubmitManualOverride(kind) ==
    /\ Len(user_override_database) < MaxOverrides
    /\ submit_manual_override(kind)

\* GET /learning-status
GetLearningStatus ==
    /\ LoopFree
    /\ response' = Reply("learning_status", 200,
                         IF get_learning_status(user_override_database).ready_for_retraining
                         THEN "ready_for_retraining: True"
                         ELSE "ready_for_retraining: False")
    /\ UNCHANGED serverVars
    /\ UNCHANGED monitorVars

\* The monitor object as a value.
Monitor ==
    [prediction_history |-> prediction_history, history_maxlen |-> history_maxlen,
     drift_detection |-> drift_detection, clock |-> clock, logged |-> logged]

\* ModelMonitor.log_prediction as a function of the monitor.
log_prediction(mon, in) ==
    [mon EXCEPT
        !.clock = @ + 1,
        !.prediction_history =
            DequeAppend(@, PredictionRecord(in, mon.clock + 1), mon.history_maxlen),
        !.drift_detection[in.model_type] =
            UnboundedAppend(@, DriftRecord(in, mon.clock + 1)),
        !.logged = Append(@, PredictionRecord(in, mon.clock + 1))]

\* One log_prediction call per item, in order.
RECURSIVE log_predictions(_, _)
log_predictions(mon, ins) ==
    IF ins = << >> THEN mon
    ELSE log_predictions(log_prediction(mon, Head(ins)), Tail(ins))

SetMonitor(mon) ==
    /\ clock' = mon.clock
    /\ prediction_history' = mon.prediction_history
    /\ drift_detection' = mon.drift_detection
    /\ logged' = mon.logged

\* ModelMonitor.log_prediction
LogPrediction(in) ==
    /\ clock < MaxLogs
    /\ SetMonitor(log_prediction(Monitor, in))

\* POST /classify-building
ClassifyBuilding(request) ==
    /\ LoopFree
    /\ response' = classify_building(trainers[ml_trainer], request)
    /\ IF classify_building(trainers[ml_trainer], request).code = 200
       THEN /\ LogPrediction(BuildingLogInput(classify_building(trainers[ml_trainer], request)))
            /\ UNCHANGED <<history_maxlen, writers>>
       ELSE UNCHANGED monitorVars
    /\ UNCHANGED serverVars

\* POST /classify-members
ClassifyMembers(request) ==
    /\ LoopFree
    /\ LET reply == classify_members(trainers[ml_trainer], request)
       IN  /\ response' = Reply("classify_members", reply.code, reply.detail)
           /\ IF reply.code = 200
              THEN /\ clock + Len(reply.memberTags) <= MaxLogs
                   /\ SetMonitor(log_predictions(Monitor, MemberLogInputs(reply)))
                   /\ UNCHANGED <<history_maxlen, writers>>
              ELSE UNCHANGED monitorVars
    /\ UNCHANGED serverVars

\* The background task begins once the response is sent (lines 675-677).
TaskBegin ==
    /\ LoopFree
    /\ background_tasks # << >>
    /\ Head(background_tasks).func = "retrain_with_user_feedback"
    /\ task' = [pc |-> "prepare",
                include_overrides |-> Head(background_tasks).include_overrides,
                model_types |-> Head(background_tasks).model_types,
                new_trainer |-> "none", rows |-> {}, data_prep |-> "none"]
    /\ background_tasks' = Tail(background_tasks)
    /\ retraining_status' = PreparingStatus(retraining_status)
    /\ UNCHANGED <<ml_trainer, trainers, models_dir, user_override_database, response>>
    /\ UNCHANGED monitorVars

\* prepare_enhanced_training_data returns (with the synthesized rows, or with
\* the base corpus alone when its own try raised); then lines 682-686.  The
\* task remembers which (data_prep) and the overrides it has rows of.
TaskPrepare ==
    /\ task.pc = "prepare"
    /\ \E outcome \in {"returns", "try_raises"} :
          task' = [task EXCEPT
                      !.pc = "train_member",
                      !.new_trainer = NewTrainerObject,
                      !.data_prep = outcome,
                      !.rows = IF outcome = "returns" /\ task.include_overrides
                               THEN SynthesizedRows(user_override_database)
                               ELSE {}]
    /\ trainers' = [trainers EXCEPT ![NewTrainerObject] = BlankTrainer]
    /\ retraining_status' = TrainingStatus(retraining_status)
    /\ UNCHANGED <<ml_trainer, models_dir, user_override_database, background_tasks, response>>
    /\ UNCHANGED monitorVars

\* lines 688-691
TaskTrainMember ==
    /\ task.pc = "train_member"
    /\ IF "member" \in task.model_types
       THEN /\ retraining_status' = MemberStageStatus(retraining_status)
            /\ trainers' = [trainers EXCEPT ![task.new_trainer] =
                               train_member_classification_ensemble(@)]
       ELSE UNCHANGED <<retraining_status, trainers>>
    /\ task' = [task EXCEPT !.pc = "train_building"]
    /\ UNCHANGED <<ml_trainer, models_dir, user_override_database, background_tasks, response>>
    /\ UNCHANGED monitorVars

\* lines 693-696
TaskTrainBuilding ==
    /\ task.pc = "train_building"
    /\ IF "building" \in task.model_types
       THEN /\ ~train_global_classification_ensembles(
                   trainers[task.new_trainer], BaseCorpusColumns).raised
            /\ retraining_status' = BuildingStageStatus(retraining_status)
            /\ trainers' = [trainers EXCEPT ![task.new_trainer] =
                               train_global_classification_ensembles(@, BaseCorpusColumns).trainer]
       ELSE UNCHANGED <<retraining_status, trainers>>
    /\ task' = [task EXCEPT !.pc = "mark_saving"]
    /\ UNCHANGED <<ml_trainer, models_dir, user_override_database, background_tasks, response>>
    /\ UNCHANGED monitorVars

\* lines 698-699
TaskMarkSaving ==
    /\ task.pc = "mark_saving"
    /\ retraining_status' = SavingStatus(retraining_status)
    /\ task' = [task EXCEPT !.pc = "save"]
    /\ UNCHANGED <<ml_trainer, trainers, models_dir, user_override_database,
                   background_tasks, response>>
    /\ UNCHANGED monitorVars

\* save_models returned: lines 704-716.  The object the reference leaves is
\* garbage (no handler holds it) and is returned to its constructed state.
TaskSave ==
    /\ task.pc = "save"
    /\ models_dir' = save_models(trainers[task.new_trainer], models_dir)
    /\ ml_trainer' = task.new_trainer
    /\ trainers' = IF task.new_trainer # ml_trainer
                   THEN [trainers EXCEPT ![ml_trainer] = BlankTrainer]
                   ELSE trainers
    /\ user_override_database' = MarkProcessed(user_override_database)
    /\ retraining_status' = CompletedStatus
    /\ task' = NoTask
    /\ UNCHANGED <<background_tasks, response>>
    /\ UNCHANGED monitorVars

\* A step of the try block raises: the except branch, lines 720-728.
TaskRaise ==
    /\ task.pc \in RunPcs \ {"mark_saving"}
    /\ task.pc = "train_member" => "member" \in task.model_types
    /\ task.pc = "train_building" => "building" \in task.model_types
    /\ retraining_status' = ErrorStatus
    /\ trainers' = IF task.new_trainer \in ObjIds /\ task.new_trainer # ml_trainer
                   THEN [trainers EXCEPT ![task.new_trainer] = BlankTrainer]
                   ELSE trainers
    /\ models_dir' \in IF task.pc = "save"
                       THEN PartialSaves(trainers[task.new_trainer], models_dir)
                       ELSE {models_dir}
    /\ task' = NoTask
    /\ UNCHANGED <<ml_trainer, user_override_database, background_tasks, response>>
    /\ UNCHANGED monitorVars

TaskStep ==
    \/ TaskBegin
    \/ TaskPrepare
    \/ TaskTrainMember
    \/ TaskTrainBuilding
    \/ TaskMarkSaving
    \/ TaskSave
    \/ TaskRaise

Next ==
    \/ \E request \in RetrainRequests : RetrainModels(request)
    \/ GetRetrainStatus
    \/ \E kind \in OverrideKinds : SubmitManualOverride(kind)
    \/ GetLearningStatus
    \/ \E request \in BuildingRequests : ClassifyBuilding(request)
    \/ \E request \in MemberRequests : ClassifyMembers(request)
    \/ TaskStep

Spec == Init /\ [][Next]_vars

\* The job's scheduling: a task that was added is begun, and each of its
\* steps returns or raises.
LiveSpec == Init /\ [][Next]_vars /\ WF_vars(TaskStep)

\* ------------------------------------------------ /ml-pipeline/train
\* POST /ml-pipeline/train: no guard, the task is always added.
TriggerMlTraining ==
    /\ LoopFree
    /\ Len(background_tasks) < MaxTasks
    /\ background_tasks' = Append(background_tasks,
           [func |-> "run_ml_pipeline_docker", include_overrides |-> FALSE, model_types |-> {}])
    /\ response' = Reply("trigger_ml_training", 200, "training_started")
    /\ UNCHANGED <<retraining_status, ml_trainer, trainers, models_dir,
                   user_override_database, task>>
    /\ UNCHANGED monitorVars

\* run_ml_pipeline_docker begins: subprocess.run blocks the event loop.
PipelineTaskBegin ==
    /\ LoopFree
    /\ background_tasks # << >>
    /\ Head(background_tasks).func = "run_ml_pipeline_docker"
    /\ task' = [NoTask EXCEPT !.pc = "docker"]
    /\ background_tasks' = Tail(background_tasks)
    /\ UNCHANGED <<retraining_status, ml_trainer, trainers, models_dir,
                   user_override_database, response>>
    /\ UNCHANGED monitorVars

\* subprocess.run returned, timed out or raised: each branch only logs.
PipelineTaskEnd ==
    /\ task.pc = "docker"
    /\ task' = NoTask
    /\ UNCHANGED <<retraining_status, ml_trainer, trainers, models_dir,
                   user_override_database, background_tasks, response>>
    /\ UNCHANGED monitorVars

\* The two start endpoints and the tasks they add.
TrainingNext ==
    \/ \E request \in RetrainRequests : RetrainModels(request)
    \/ TriggerMlTraining
    \/ GetRetrainStatus
    \/ \E kind \in OverrideKinds : SubmitManualOverride(kind)
    \/ TaskStep
    \/ PipelineTaskBegin
    \/ PipelineTaskEnd

TrainingSpec == Init /\ [][TrainingNext]_vars

\* ------------------------------------------ ModelMonitor, called directly
\* ModelMonitor(max_history=n), before anything is logged.
MonitorNew(n) ==
    /\ clock = 0
    /\ history_maxlen = DefaultMaxHistory
    /\ history_maxlen' = n
    /\ UNCHANGED <<prediction_history, drift_detection, clock, logged, writers>>
    /\ UNCHANGED <<serverVars, response>>

MonitorLogPrediction(in) ==
    /\ LogPrediction(in)
    /\ UNCHANGED <<history_maxlen, writers>>
    /\ UNCHANGED <<serverVars, response>>

MonitorNext ==
    \/ \E n \in 1..MaxHistory : MonitorNew(n)
    \/ \E in \in LogInputs : MonitorLogPrediction(in)

MonitorSpec == Init /\ [][MonitorNext]_vars

\* ------------------------- log_prediction, statement by statement
\* Callers inside log_prediction at the same time, interleaved at its three
\* statements: this covers every schedule of the callers, the event loop's
\* (one call after the other) among them.
\* timestamp = datetime.now() and the record dict
WriterStamp(w, in) ==
    /\ writers[w].pc = "none"
    /\ clock < MaxLogs
    /\ clock' = clock + 1
    /\ writers' = [writers EXCEPT ![w] = [pc |-> "stamped", in |-> in, timestamp |-> clock + 1]]
    /\ UNCHANGED <<prediction_history, history_maxlen, drift_detection, logged>>
    /\ UNCHANGED <<serverVars, response>>

\* self.prediction_history.append(prediction_record)
WriterAppendHistory(w) ==
    /\ writers[w].pc = "stamped"
    /\ prediction_history' =
           DequeAppend(prediction_history,
                       PredictionRecord(writers[w].in, writers[w].timestamp), history_maxlen)
    /\ logged' = Append(logged, PredictionRecord(writers[w].in, writers[w].timestamp))
    /\ writers' = [writers EXCEPT ![w].pc = "appended"]
    /\ UNCHANGED <<history_maxlen, drift_detection, clock>>
    /\ UNCHANGED <<serverVars, response>>

\* self.drift_detection[model_type].append(...), and the return
WriterAppendDrift(w) ==
    /\ writers[w].pc = "appended"
    /\ drift_detection' =
           [drift_detection EXCEPT ![writers[w].in.model_type] =
               UnboundedAppend(@, DriftRecord(writers[w].in, writers[w].timestamp))]
    /\ writers' = [writers EXCEPT ![w] = NoCall]
    /\ UNCHANGED <<prediction_history, history_maxlen, clock, logged>>
    /\ UNCHANGED <<serverVars, response>>

WritersNext ==
    \/ \E n \in 1..MaxHistory : MonitorNew(n)
    \/ \E w \in WriterIds, in \in LogInputs : WriterStamp(w, in)
    \/ \E w \in WriterIds : WriterAppendHistory(w)
    \/ \E w \in WriterIds : WriterAppendDrift(w)

WritersSpec == Init /\ [][WritersNext]_vars

\* ------------------------------------- EnsembleMLTrainer, called directly
\* The label columns a caller's global_df may carry.
GlobalColumnSets == SUBSET BaseCorpusColumns

TrainerTrainMember ==
    /\ trainers' = [trainers EXCEPT ![ml_trainer] = train_member_classification_ensemble(@)]
    /\ response' = Reply("train_member_classification_ensemble", 0, "returned")
    /\ UNCHANGED <<retraining_status, ml_trainer, models_dir, user_override_database,
                   background_tasks, task>>
    /\ UNCHANGED monitorVars

TrainerTrainGlobal(columns) ==
    /\ trainers' = [trainers EXCEPT ![ml_trainer] =
                       train_global_classification_ensembles(@, columns).trainer]
    /\ response' = Reply("train_global_classification_ensembles", 0,
                         IF train_global_classification_ensembles(trainers[ml_trainer], columns).raised
                         THEN "raised" ELSE "returned")
    /\ UNCHANGED <<retraining_status, ml_trainer, models_dir, user_override_database,
                   background_tasks, task>>
    /\ UNCHANGED monitorVars

TrainerPredictGlobal ==
    /\ response' = Reply("predict_global_properties", 0,
                         IF predict_global_properties(trainers[ml_trainer]).raised
                         THEN "raised"
                         ELSE IF predict_global_properties(trainers[ml_trainer]).BuildingType
                         THEN "BuildingType of the ensemble"
                         ELSE "no BuildingType")
    /\ UNCHANGED serverVars
    /\ UNCHANGED monitorVars

\* trainer = EnsembleMLTrainer()
TrainerNew ==
    /\ trainers' = [trainers EXCEPT ![ml_trainer] = BlankTrainer]
    /\ response' = Reply("EnsembleMLTrainer", 0, "returned")
    /\ UNCHANGED <<retraining_status, ml_trainer, models_dir, user_override_database,
                   background_tasks, task>>
    /\ UNCHANGED monitorVars

TrainerSave ==
    /\ models_dir' = save_models(trainers[ml_trainer], models_dir)
    /\ response' = Reply("save_models", 0, "returned")
    /\ UNCHANGED <<retraining_status, ml_trainer, trainers, user_override_database,
                   background_tasks, task>>
    /\ UNCHANGED monitorVars

TrainerLoad ==
    /\ trainers' = [trainers EXCEPT ![ml_trainer] = load_models(@, models_dir).trainer]
    /\ response' = Reply("load_models", 0,
                         IF load_models(trainers[ml_trainer], models_dir).loaded
                         THEN "True" ELSE "False")
    /\ UNCHANGED <<retraining_status, ml_trainer, models_dir, user_override_database,
                   background_tasks, task>>
    /\ UNCHANGED monitorVars

TrainerNext ==
    \/ TrainerNew
    \/ TrainerSave
    \/ TrainerLoad
    \/ TrainerTrainMember
    \/ \E columns \in GlobalColumnSets : TrainerTrainGlobal(columns)
    \/ TrainerPredictGlobal

TrainerSpec == Init /\ [][TrainerNext]_vars

\* ------------------------------------ ModelMonitor analysis, called directly
\* What was logged before the analysis: confidences in percent.
AnalysisInputs ==
    << [model_type |-> "member_classification", prediction |-> "Column", confidence |-> 100, actual |-> "Column"],
       [model_type |-> "member_classification", prediction |-> "Column", confidence |-> 10, actual |-> "Beam"],
       [model_type |-> "member_classification", prediction |-> "Beam", confidence |-> 60, actual |-> "None"],
       [model_type |-> "building_classification", prediction |-> "HANGAR", confidence |-> 90, actual |-> "None"] >>

\* n copies of x.
Repeat(x, n) ==
    [i \in 1..n |-> x]

\* The logs tried: counts[k] calls with AnalysisInputs[k], for k = 1, 2, ...
AnalysisLogs ==
    { Repeat(AnalysisInputs[1], counts[1]) \o Repeat(AnalysisInputs[2], counts[2])
        \o Repeat(AnalysisInputs[3], counts[3]) \o Repeat(AnalysisInputs[4], counts[4]) :
      counts \in {c \in [1..4 -> 0..MaxWindow] : c[1] + c[2] + c[3] + c[4] <= MaxWindow} }

\* A monitor after the calls of one of the logs.
AnalysisInit ==
    /\ retraining_status = IdleStatus
    /\ ml_trainer = "trainer_a"
    /\ models_dir = EmptyModelsDir
    /\ trainers = [o \in ObjIds |-> BlankTrainer]
    /\ user_override_database = << >>
    /\ background_tasks = << >>
    /\ task = NoTask
    /\ response = Reply("none", 0, "none")
    /\ history_maxlen = DefaultMaxHistory
    /\ writers = [w \in WriterIds |-> NoCall]
    /\ \E ins \in AnalysisLogs :
          LET mon == log_predictions(
                        [prediction_history |-> << >>, history_maxlen |-> DefaultMaxHistory,
                         drift_detection |-> [m \in ModelTypes |-> << >>],
                         clock |-> 0, logged |-> << >>], ins)
          IN  /\ prediction_history = mon.prediction_history
              /\ drift_detection = mon.drift_detection
              /\ clock = mon.clock
              /\ logged = mon.logged

DetectDrift(model_type, cutoff_time) ==
    /\ response' = Reply("detect_performance_drift", 0,
                         detect_performance_drift(Monitor, model_type, cutoff_time))
    /\ UNCHANGED serverVars
    /\ UNCHANGED monitorVars

RecentAccuracy(model_type, cutoff_time) ==
    /\ response' = Reply("calculate_recent_accuracy", 0,
                         calculate_recent_accuracy(Monitor, model_type, cutoff_time))
    /\ UNCHANGED serverVars
    /\ UNCHANGED monitorVars

AnalysisNext ==
    \/ \E model_type \in ModelTypes, cutoff_time \in 0..MaxCutoff :
          DetectDrift(model_type, cutoff_time)
    \/ \E model_type \in ModelTypes, cutoff_time \in 0..MaxCutoff :
          RecentAccuracy(model_type, cutoff_time)

AnalysisSpec == AnalysisInit /\ [][AnalysisNext]_vars

\* ------------------------------- the override store up to the threshold
\* MEMBER_TAG overrides with a member context, as many as MaxStored.
LearningKinds ==
    {k \in OverrideKinds : k.correction_type = "MEMBER_TAG" /\ k.model_context = {"member"}}

LearningSubmit(kind) ==
    /\ Len(user_override_database) < MaxStored
    /\ submit_manual_override(kind)

LearningRetrain ==
    RetrainModels([includeOverrides |-> TRUE, modelTypes |-> {}])

LearningNext ==
    \/ \E kind \in LearningKinds : LearningSubmit(kind)
    \/ GetLearningStatus
    \/ LearningRetrain
    \/ TaskStep

LearningSpec == Init /\ [][LearningNext]_vars

\* ------------------------- prepare_enhanced_training_data, called directly
\* The overrides a caller's list may hold: correction types, the keys of
\* user_correction and of model_context ("projectName" is a key the
\* extraction does not read).
PrepareKinds ==
    { [correction_type |-> "BUILDING_TYPE", user_correction |-> {"type"}, model_context |-> {}],
      [correction_type |-> "BUILDING_TYPE", user_correction |-> {"type"}, model_context |-> {"geometry"}],
      [correction_type |-> "BUILDING_TYPE", user_correction |-> {"type"}, model_context |-> {"members", "nodes"}],
      [correction_type |-> "BUILDING_TYPE", user_correction |-> {"type"}, model_context |-> {"projectName"}],
      [correction_type |-> "BUILDING_TYPE", user_correction |-> {}, model_context |-> {"geometry"}],
      [correction_type |-> "MEMBER_TAG", user_correction |-> {"tag"}, model_context |-> {"member"}],
      [correction_type |-> "MEMBER_TAG", user_correction |-> {"tag"}, model_context |-> {}],
      [correction_type |-> "MEMBER_TAG", user_correction |-> {"tag"}, model_context |-> {"geometry"}],
      [correction_type |-> "MEMBER_TAG", user_correction |-> {}, model_context |-> {"member"}],
      [correction_type |-> "GEOMETRY", user_correction |-> {"type"}, model_context |-> {"geometry"}] }

\* The lists of at most MaxPrepared stored records, processed or not.
PrepareLists ==
    UNION { { [i \in 1..n |-> [OverrideRecord(kinds[i], i) EXCEPT !.processed = flags[i]]] :
                kinds \in [1..n -> PrepareKinds], flags \in [1..n -> BOOLEAN] } :
            n \in 0..MaxPrepared }

\* The module's state when a function is called directly: the live trainer
\* object t, the list of overrides, nothing queued, running or logged.
CalledWith(t, overrides) ==
    /\ retraining_status = IdleStatus
    /\ ml_trainer = "trainer_a"
    /\ models_dir = EmptyModelsDir
    /\ trainers = [o \in ObjIds |-> IF o = "trainer_a" THEN t ELSE BlankTrainer]
    /\ user_override_database = overrides
    /\ background_tasks = << >>
    /\ task = NoTask
    /\ response = Reply("none", 0, "none")
    /\ prediction_history = << >>
    /\ history_maxlen = DefaultMaxHistory
    /\ drift_detection = [m \in ModelTypes |-> << >>]
    /\ clock = 0
    /\ logged = << >>
    /\ writers = [w \in WriterIds |-> NoCall]

PrepareInit ==
    \E overrides \in PrepareLists : CalledWith(BlankTrainer, overrides)

PrepareEnhancedTrainingData(outcome) ==
    /\ response' = Reply("prepare_enhanced_training_data", 0,
                         prepare_enhanced_training_data(user_override_database, outcome))
    /\ UNCHANGED serverVars
    /\ UNCHANGED monitorVars

PrepareNext ==
    \E outcome \in PrepareOutcomes : PrepareEnhancedTrainingData(outcome)

PrepareSpec == PrepareInit /\ [][PrepareNext]_vars

\* ------------------------ StructuralModelFeatureExtractor, called directly
\* A JSON field: absent from its dict, present holding null, or holding a value.
Absent == [state |-> "absent", value |-> 0]

Null == [state |-> "null", value |-> 0]

Value(v) == [state |-> "value", value |-> v]

\* dict.get(key, default): the default stands in for an absent key only; a
\* key holding null gives None.
Get(field, default) ==
    IF field.state = "absent" THEN Value(default) ELSE field

\* max(x, floor) of a number field; TypeError when it is None.
FlooredBy(field, floor) ==
    IF field.state = "null" THEN [raised |-> "TypeError", value |-> 0]
    ELSE [raised |-> "none", value |-> IF field.value > floor THEN field.value ELSE floor]

\* _detect_floor_level: elevation / total_height with no floor on the
\* denominator; the thresholds 0.2, 0.6, 0.8 in tenths.
detect_floor_level(elevation, model_geometry) ==
    LET total_height == Get(model_geometry.totalHeight, 1)
    IN  IF total_height.state = "null" THEN [raised |-> "TypeError", value |-> 0]
        ELSE IF total_height.value = 0 THEN [raised |-> "ZeroDivisionError", value |-> 0]
        ELSE [raised |-> "none",
              value |-> IF 10 * elevation < 2 * total_height.value THEN 0
                        ELSE IF 10 * elevation < 6 * total_height.value THEN 1
                        ELSE IF 10 * elevation < 8 * total_height.value THEN 2
                        ELSE 3]

\* _analyze_fixity: the restrained degrees of freedom, in sixths.
analyze_fixity(node) ==
    IF node.restraints.state = "value" THEN Cardinality(node.restraints.value) ELSE 0

\* The geometry dicts of a call: none given ({}), and the optional fields
\* absent, null, zero or positive.
NumberFields == {Absent, Null, Value(0), Value(10)}

Geometries ==
    [totalHeight : NumberFields, buildingLength : NumberFields]

\* A node's restraints: absent, null or some restrained directions.
RestraintFields == {Absent, Null, Value({"dx", "rz"})}

\* A member's type or tag: absent, null or a text.
TextFields == {Absent, Null, Value("BEAM")}

\* The average elevations of a member whose nodes exist.
Elevations == {0, 10}

\* extract_member_features for a member whose two nodes exist, in statement
\* order: the denominators floored by max(., 1) (lines 119-121), the
\* fixity scores, the floor level, the member-type flags.
extract_member_feature_values(member, node, model_geometry, avg_elevation) ==
    LET building_height == FlooredBy(Get(model_geometry.totalHeight, 1), 1)
        building_length == FlooredBy(Get(model_geometry.buildingLength, 1), 1)
        floor_level == detect_floor_level(avg_elevation, model_geometry)
        raised == IF building_height.raised # "none" THEN building_height.raised
                  ELSE IF building_length.raised # "none" THEN building_length.raised
                  ELSE floor_level.raised
    IN  IF raised # "none"
        THEN [raised |-> raised, features |-> {}, floor_level |-> 0, avg_fixity |-> 0,
              member_type_beam |-> FALSE]
        ELSE [raised |-> "none", features |-> MemberFeatureNames,
              floor_level |-> floor_level.value,
              avg_fixity |-> analyze_fixity(node),
              member_type_beam |-> member.type = Value("BEAM")]

\* member.get('tag', '').lower(): AttributeError when the tag is None.
tag_lower(member) ==
    IF member.tag.state = "null" THEN [raised |-> "AttributeError", value |-> ""]
    ELSE [raised |-> "none", value |-> Get(member.tag, "").value]

\* extract_global_features for one node and one member: _analyze_roof_slopes
\* and _calculate_bracing_ratio read the tag unless the type decides first
\* (no type decides in both), _calculate_moment_joint_ratio calls .get on
\* node.get('restraints', {}).
extract_global_feature_values(member, node) ==
    LET roof_reads_tag == member.type.state # "value" \/ member.type.value \notin {"RAFTER", "BEAM"}
        brace_reads_tag == member.type.state # "value" \/ member.type.value # "BRACE"
        raised == IF (roof_reads_tag \/ brace_reads_tag) /\ tag_lower(member).raised # "none"
                  THEN tag_lower(member).raised
                  ELSE IF node.restraints.state = "null" THEN "AttributeError"
                  ELSE "none"
    IN  [raised |-> raised,
         features |-> IF raised = "none" THEN GlobalFeatureNames ELSE {}]

ExtractMemberFeatures(member, node, model_geometry, avg_elevation) ==
    /\ response' = Reply("extract_member_features", 0,
                         extract_member_feature_values(member, node, model_geometry,
                                                       avg_elevation)
                             @@ [model_geometry |-> model_geometry, member |-> member,
                                 node |-> node])
    /\ UNCHANGED serverVars
    /\ UNCHANGED monitorVars

ExtractGlobalFeatures(member, node) ==
    /\ response' = Reply("extract_global_features", 0,
                         extract_global_feature_values(member, node)
                             @@ [member |-> member, node |-> node])
    /\ UNCHANGED serverVars
    /\ UNCHANGED monitorVars

ExtractNext ==
    \/ \E member \in [type : TextFields, tag : TextFields],
          node \in [restraints : RestraintFields],
          model_geometry \in Geometries, avg_elevation \in Elevations :
          ExtractMemberFeatures(member, node, model_geometry, avg_elevation)
    \/ \E member \in [type : TextFields, tag : TextFields],
          node \in [restraints : RestraintFields] :
          ExtractGlobalFeatures(member, node)

ExtractInit ==
    CalledWith(BlankTrainer, << >>)

ExtractSpec == ExtractInit /\ [][ExtractNext]_vars

\* ----------------------------- get_alternative_building_types, called directly
\* building_type_encoder.classes_ (sorted), for a corpus of four building types.
BuildingTypeClasses ==
    <<"CAR_SHED_CANOPY", "INDUSTRIAL_WAREHOUSE", "SINGLE_GABLE_HANGAR", "TEMPORARY_STRUCTURE">>

\* What predict_proba may return: one probability per class, in units of
\* 1/ProbabilityUnits, adding up to one.
ProbabilityVectors ==
    {p \in [1..Len(BuildingTypeClasses) -> 0..ProbabilityUnits] :
        p[1] + p[2] + p[3] + p[4] = ProbabilityUnits}

\* VotingClassifier.predict with soft voting: np.argmax of the averaged
\* probabilities, the first class among equal maxima.
predict(probabilities) ==
    CHOOSE i \in DOMAIN probabilities :
        /\ \A j \in DOMAIN probabilities : probabilities[j] <= probabilities[i]
        /\ \A j \in DOMAIN probabilities : probabilities[j] = probabilities[i] => i <= j

\* class_probs.sort(key=lambda x: x[1], reverse=True): a stable sort, equal
\* probabilities keep the order of classes_.
SortedClassProbs(probabilities) ==
    LET place(i) == Cardinality({j \in DOMAIN probabilities :
                                    \/ probabilities[j] > probabilities[i]
                                    \/ probabilities[j] = probabilities[i] /\ j < i}) + 1
    IN  [k \in DOMAIN probabilities |->
            LET i == CHOOSE c \in DOMAIN probabilities : place(c) = k
            IN  [type |-> BuildingTypeClasses[i], confidence |-> probabilities[i]]]

\* top_k: int = 3
TopK == 3

\* get_alternative_building_types: class_probs[1:top_k+1]; [] when the
\* transform or predict_proba raises (the shared preprocessing is unfitted or
\* fitted on another schema, or there is no building-type ensemble).
get_alternative_building_types(t, probabilities) ==
    IF t.global_fit_schema # "base" \/ t.building_type_ensemble = "none"
    THEN << >>
    ELSE LET class_probs == SortedClassProbs(probabilities)
             last == IF TopK + 1 < Len(class_probs) THEN TopK + 1 ELSE Len(class_probs)
         IN  SubSeq(class_probs, 2, last)

\* The trainers a caller may pass: as constructed, trained on a frame with
\* the building_type column only, and as train_model.main() leaves it.
AlternativesTrainers ==
    {BlankTrainer,
     train_global_classification_ensembles(BlankTrainer, {"building_type"}).trainer,
     FullTrainer}

AlternativesInit ==
    \E t \in AlternativesTrainers : CalledWith(t, << >>)

GetAlternativeBuildingTypes(probabilities) ==
    /\ response' = Reply("get_alternative_building_types", 0,
                         [top |-> BuildingTypeClasses[predict(probabilities)],
                          alternatives |-> get_alternative_building_types(
                                               trainers[ml_trainer], probabilities)])
    /\ UNCHANGED serverVars
    /\ UNCHANGED monitorVars

AlternativesNext ==
    \E probabilities \in ProbabilityVectors : GetAlternativeBuildingTypes(probabilities)

AlternativesSpec == AlternativesInit /\ [][AlternativesNext]_vars

\* --------------- classify_members past validation and prediction, directly
\* The member lists the extraction loop may be given, up to MaxTargets
\* members; whether a member's extraction succeeds is part of its shape.
TargetLists ==
    UNION {[1..n -> MemberShapes] : n \in 1..MaxTargets}

\* deployment/api_server.py lines 497-534 for a list with some features and
\* a trainer that predicts one role per row.
FormatMemberTags(members) ==
    /\ member_features(members) # << >>
    /\ response' = Reply("deployment.classify_members", 200,
                         [memberTags |-> member_tags(members), members |-> members])
    /\ UNCHANGED serverVars
    /\ UNCHANGED monitorVars

\* ml_pipeline/api_server.py lines 331-369, likewise.
PipelineFormatMemberTags(members) ==
    /\ member_features(members) # << >>
    /\ response' = Reply("ml_pipeline.classify_members", 200,
                         [memberTags |-> pipeline_member_tags(members), members |-> members])
    /\ UNCHANGED serverVars
    /\ UNCHANGED monitorVars

MembersNext ==
    \/ \E members \in TargetLists : FormatMemberTags(members)
    \/ \E members \in TargetLists : PipelineFormatMemberTags(members)

MembersSpec == ExtractInit /\ [][MembersNext]_vars

\* ------------------------------- ml_pipeline/api_server.py: POST /retrain
\* In this server a background task stays in background_tasks from add_task
\* until it ends, with its position: "added" (not begun), or the await it
\* is suspended at.  perform_retraining awaits asyncio.sleep between its
\* steps, so other coroutines and handlers run in between.
PerformRetrainingTask(request) ==
    [func |-> "perform_retraining", pc |-> "added",
     include_overrides |-> request.includeOverrides,
     model_types |-> IF request.modelTypes = << >> THEN <<"member", "building">>
                     ELSE request.modelTypes,
     i |-> 0]

StartRetrainingRequests ==
    { [includeOverrides |-> TRUE, modelTypes |-> << >>],
      [includeOverrides |-> FALSE, modelTypes |-> <<"member">>] }

\* The server with manual_overrides empty or holding a record.
PipelineInit ==
    \E overrides \in {<< >>, <<[id |-> "uuid", correction_type |-> "MEMBER_TAG"]>>} :
        CalledWith(BlankTrainer, overrides)

\* POST /retrain: 409 when is_retraining is set (raised outside the try);
\* otherwise the task is added and the flag is left as it is.
StartRetraining(request) ==
    /\ Len(background_tasks) < MaxTasks
    /\ IF retraining_status.is_retraining
       THEN /\ response' = Reply("start_retraining", 409, "Retraining already in progress")
            /\ UNCHANGED background_tasks
       ELSE /\ response' = Reply("start_retraining", 200, "Retraining started in background")
            /\ background_tasks' = Append(background_tasks, PerformRetrainingTask(request))
    /\ UNCHANGED <<retraining_status, ml_trainer, trainers, models_dir,
                   user_override_database, task>>
    /\ UNCHANGED monitorVars

\* progress = 30 + (i * 40 // len(model_types)), i counted from 0
TrainingProgress(t) ==
    30 + ((t.i * 40) \div Len(t.model_types))

\* The step of task k from its position to its next await (or its end).
PerformRetrainingStep(k) ==
    LET t == background_tasks[k]
        at(pc) == [background_tasks EXCEPT ![k].pc = pc]
        train == /\ retraining_status' =
                        [retraining_status EXCEPT
                            !.progress = TrainingProgress(t),
                            !.current_stage = "Retraining model"]
                 /\ background_tasks' = [background_tasks EXCEPT ![k].pc = "sleep_train",
                                                                 ![k].i = t.i + 1]
        evaluate == /\ retraining_status' =
                           [retraining_status EXCEPT
                               !.progress = 80,
                               !.current_stage = "Evaluating model performance"]
                    /\ background_tasks' = at("sleep_evaluate")
    IN  /\ k \in 1..Len(background_tasks)
        /\ CASE t.pc = "added" ->
                   /\ retraining_status' =
                          [is_retraining |-> TRUE, progress |-> 10, status |-> "starting",
                           current_stage |-> "Loading training data", error |-> FALSE]
                   /\ background_tasks' = at("sleep_load")
             [] t.pc = "sleep_load" ->
                   IF t.include_overrides /\ user_override_database # << >>
                   THEN /\ retraining_status' =
                               [retraining_status EXCEPT
                                   !.progress = 20,
                                   !.current_stage = "Processing manual overrides"]
                        /\ background_tasks' = at("sleep_overrides")
                   ELSE train
             [] t.pc = "sleep_overrides" -> train
             [] t.pc = "sleep_train" ->
                   IF t.i < Len(t.model_types) THEN train ELSE evaluate
             [] t.pc = "sleep_evaluate" ->
                   /\ retraining_status' =
                          [retraining_status EXCEPT
                              !.progress = 90, !.current_stage = "Saving updated models"]
                   /\ background_tasks' = at("sleep_save")
             [] t.pc = "sleep_save" ->
                   /\ retraining_status' =
                          [retraining_status EXCEPT
                              !.is_retraining = FALSE, !.progress = 100,
                              !.status = "completed",
                              !.current_stage = "Retraining completed successfully"]
                   /\ background_tasks' = SelectSeq(at("ended"), LAMBDA x : x.pc # "ended")
        /\ UNCHANGED <<ml_trainer, trainers, models_dir, user_override_database, task, response>>
        /\ UNCHANGED monitorVars

\* ml_trainer.save_models() raises: the except branch.
PerformRetrainingFails(k) ==
    /\ k \in 1..Len(background_tasks)
    /\ background_tasks[k].pc = "sleep_evaluate"
    /\ retraining_status' = [retraining_status EXCEPT
                                !.is_retraining = FALSE, !.progress = 0,
                                !.status = "failed", !.error = TRUE]
    /\ background_tasks' = SelectSeq([background_tasks EXCEPT ![k].pc = "ended"],
                                     LAMBDA x : x.pc # "ended")
    /\ UNCHANGED <<ml_trainer, trainers, models_dir, user_override_database, task, response>>
    /\ UNCHANGED monitorVars

PipelineNext ==
    \/ \E request \in StartRetrainingRequests : StartRetraining(request)
    \/ \E k \in 1..MaxTasks : PerformRetrainingStep(k)
    \/ \E k \in 1..MaxTasks : PerformRetrainingFails(k)

PipelineSpec == PipelineInit /\ [][PipelineNext]_vars

\* ================================================================ claims
\* Jobs accepted and not yet ended: added and waiting, or running.
OutstandingJobs ==
    Len(RetrainTasks(background_tasks)) + (IF task.pc \in RunPcs THEN 1 ELSE 0)

\* C1: at most one retraining job is in progress at any time; while
\* is_retraining is true no step adds a background task, and a
\* /retrain-models request answered in that time is not accepted.
C1_AtMostOneRetrainingJob ==
    /\ [](OutstandingJobs <= 1)
    /\ [][retraining_status.is_retraining =>
            /\ Len(RetrainTasks(background_tasks')) <= Len(RetrainTasks(background_tasks))
            /\ (response' # response /\ response'.op = "retrain_models")
                   => response'.code # 200]_vars

\* C1 witness: a start request was rejected while a job was outstanding.
C1_Witness ==
    /\ response = Reply("retrain_models", 500, "Retraining already in progress")
    /\ OutstandingJobs = 1

\* C2: the object predictions read is never modified while it is the live
\* model, and the live model is replaced by one update of the reference
\* ml_trainer to an object that the same step leaves as it is.
C2_LiveModelReplacedByReference ==
    [][/\ ml_trainer' = ml_trainer => trainers'[ml_trainer] = trainers[ml_trainer]
       /\ ml_trainer' # ml_trainer => trainers'[ml_trainer'] = trainers[ml_trainer']]_vars

\* C2 witness: a prediction request answered after a run replaced a loaded model.
C2_Witness ==
    /\ ml_trainer = "trainer_b"
    /\ response.op = "classify_building"
    /\ models_dir.member_ensemble

SixStatuses ==
    {"idle", "preparing_data", "training_models", "saving_models", "completed", "error"}

\* C4 as claimed: the status query only sees the six statuses, and the status
\* only moves along idle -> preparing_data -> training_models ->
\* saving_models -> completed, or from an in-progress status to error.
C4_SixStatusesOnly ==
    /\ [](response.op = "retrain_status" => response.detail \in SixStatuses)
    /\ [][retraining_status'.status # retraining_status.status =>
            <<retraining_status.status, retraining_status'.status>> \in
                { <<"idle", "preparing_data">>, <<"preparing_data", "training_models">>,
                  <<"training_models", "saving_models">>, <<"saving_models", "completed">>,
                  <<"preparing_data", "error">>, <<"training_models", "error">>,
                  <<"saving_models", "error">> }]_vars

\* C4 amended: the status is one of seven values, the six and "starting"; it
\* moves idle -> starting -> preparing_data -> training_models ->
\* saving_models -> completed, from preparing_data, training_models or
\* saving_models to error, and from completed or error to starting.
C4_StatusStateMachine ==
    /\ [](retraining_status.status \in SixStatuses \cup {"starting"})
    /\ [](response.op = "retrain_status" => response.detail \in SixStatuses \cup {"starting"})
    /\ [][retraining_status'.status # retraining_status.status =>
            <<retraining_status.status, retraining_status'.status>> \in
                { <<"idle", "starting">>, <<"starting", "preparing_data">>,
                  <<"preparing_data", "training_models">>,
                  <<"training_models", "saving_models">>, <<"saving_models", "completed">>,
                  <<"preparing_data", "error">>, <<"training_models", "error">>,
                  <<"saving_models", "error">>,
                  <<"completed", "starting">>, <<"error", "starting">> }]_vars

\* C4 witness: a status query answered "starting".
C4_Witness ==
    response = Reply("retrain_status", 200, "starting")

\* The job has ended and a start request would be accepted.
JobEnded ==
    /\ retraining_status.status \in {"completed", "error"}
    /\ ~retraining_status.is_retraining
    /\ OutstandingJobs = 0
    /\ ~RetrainRejected(retraining_status)

\* C5: every accepted start (is_retraining set) is eventually followed by a
\* state in which the job has ended, is_retraining is false and a start
\* request is accepted; the flag is never set without a job outstanding.
C5_JobEndsAndRestartAccepted ==
    /\ [](OutstandingJobs = 0 => ~retraining_status.is_retraining)
    /\ retraining_status.is_retraining ~> JobEnded

\* C5 witness: a start accepted after an earlier run has completed.
C5_Witness ==
    /\ response = Reply("retrain_models", 200, "started")
    /\ retraining_status.status = "starting"
    /\ ml_trainer = "trainer_b"

\* The stages a building-type prediction needs.
BuildingStagesPresent(t) ==
    t.frame_system_ensemble /\ t.building_type_ensemble # "none"

\* C6 as claimed: predict_global_properties on a trainer without the
\* frame-system stage gives an explicit "not ready" result.
C6_NotReadyWithoutFrameSystem ==
    (response.op = "predict_global_properties" /\ ~trainers[ml_trainer].frame_system_ensemble)
        => response.detail = "not ready"

\* C7 as claimed: classify_building answers "not ready" (503) when a stage it
\* needs is absent from the live model, and a successful answer carries the
\* building type of the ensemble.
C7_NoDefaultLabel ==
    response.op = "classify_building" =>
        IF BuildingStagesPresent(trainers[ml_trainer])
        THEN response.code = 200 => response.detail = "BuildingType of the ensemble"
        ELSE response.code = 503

\* The last n items of s.
LastN(s, n) ==
    IF Len(s) <= n THEN s ELSE SubSeq(s, Len(s) - n + 1, Len(s))

\* C8: prediction_history holds at most max_history records: the last
\* max_history records logged, in logging order (a call on a full history
\* drops the oldest record and appends the new one).
C8_HistoryIsLastLogged ==
    /\ Len(prediction_history) <= history_maxlen
    /\ prediction_history = LastN(logged, history_maxlen)

\* C8 witness: the history is full and a record has been evicted.
C8_Witness ==
    /\ Len(logged) > history_maxlen
    /\ Len(prediction_history) = history_maxlen

\* C9 as claimed: no buffer log_prediction appends to holds more records than
\* the configured maximum.
C9_AllBuffersBounded ==
    /\ Len(prediction_history) <= history_maxlen
    /\ \A m \in ModelTypes : Len(drift_detection[m]) <= history_maxlen

\* The stored records that are not processed.
UnprocessedCount(overrides) ==
    Cardinality({i \in 1..Len(overrides) : ~overrides[i].processed})

\* C11 as claimed: in every state the learning status reports
\* ready_for_retraining true exactly when at least 10 unprocessed
\* OverrideRecords are stored.
C11_ReadyIffTenUnprocessed ==
    get_learning_status(user_override_database).ready_for_retraining
        <=> (UnprocessedCount(user_override_database) >= 10)

C13_DanglingMemberExcluded ==
    [][\A request \in MemberRequests :
          (/\ ClassifyMembers(request)
           /\ FeatureMembers(request.members) # {}
           /\ FeatureMembers(request.members) # 1..Len(request.members)
           /\ trainers[ml_trainer].member_ensemble)
          => LET reply == classify_members(trainers[ml_trainer], request)
             IN  /\ \A i \in 1..Len(request.members) :
                        ~request.members[i].end_node
                            => ~extract_member_features(request.members[i])
                 /\ response'.code = 200
                 /\ {reply.memberTags[k].member : k \in 1..Len(reply.memberTags)}
                        = FeatureMembers(request.members)
                 /\ \A k \in 1..Len(reply.memberTags) :
                        reply.memberTags[k].features_of = reply.memberTags[k].member]_vars

\* C14 as claimed: a classify_building or classify_members request on a
\* model that validation rejects is answered with a client error (4xx) and
\* logs nothing to the monitor.
C14_InvalidModelIsUserError ==
    [][/\ \A request \in BuildingRequests :
             (ClassifyBuilding(request) /\ ~request.valid)
                 => (response'.code \in 400..499 /\ UNCHANGED monitorVars)
       /\ \A request \in MemberRequests :
             (ClassifyMembers(request) /\ ~validate_model_input(request))
                 => (response'.code \in 400..499 /\ UNCHANGED monitorVars)]_vars

\* The records of a stage logged in the window, from the log of all calls.
WindowOf(model_type, cutoff_time) ==
    SelectSeq(logged, LAMBDA record : /\ record.model_type = model_type
                                      /\ record.timestamp > cutoff_time)

\* The three drift flags over a window (confidences in percent): average
\* confidence below 0.7, standard deviation above 0.3, one label on more
\* than 90% of the records.
DriftFlagRaised(window) ==
    LET n == Len(window)
        total == SeqSum([i \in 1..n |-> window[i].confidence])
        totalSq == SeqSum([i \in 1..n |-> window[i].confidence * window[i].confidence])
    IN  \/ total < 70 * n
        \/ n * totalSq - total * total > 900 * n * n
        \/ \E i \in 1..n :
              10 * Cardinality({j \in 1..n : window[j].prediction = window[i].prediction}) > 9 * n

\* C15: detect_performance_drift answers drift_detected false with
\* "Insufficient data" when the window holds fewer than 10 records of the
\* stage, and otherwise drift_detected is true exactly when a flag is raised.
C15_DriftPolicy ==
    [][\A model_type \in ModelTypes, cutoff_time \in 0..MaxCutoff :
          DetectDrift(model_type, cutoff_time) =>
              IF Len(WindowOf(model_type, cutoff_time)) < 10
              THEN /\ ~response'.detail.drift_detected
                   /\ response'.detail.reason = "Insufficient data"
              ELSE /\ response'.detail.reason = "evaluated"
                   /\ response'.detail.drift_detected
                         <=> DriftFlagRaised(WindowOf(model_type, cutoff_time))]_vars

\* C15 witness: drift was evaluated on a window of exactly 10 records and
\* found none.
C15_Witness ==
    /\ response.op = "detect_performance_drift"
    /\ response.detail.reason = "evaluated"
    /\ ~response.detail.drift_detected
    /\ Len(drift_detection["member_classification"]) = 10

\* C16: calculate_recent_accuracy answers None exactly when the window holds
\* no labeled record of the stage, and otherwise the number of labeled
\* records whose prediction equals actual over the number of labeled
\* records, a positive denominator and a ratio between 0 and 1.
C16_AccuracyNeedsGroundTruth ==
    [][\A model_type \in ModelTypes, cutoff_time \in 0..MaxCutoff :
          RecentAccuracy(model_type, cutoff_time) =>
              LET labeled == SelectSeq(WindowOf(model_type, cutoff_time),
                                       LAMBDA record : record.actual # "None")
              IN  IF labeled = << >>
                  THEN response'.detail.is_none
                  ELSE /\ ~response'.detail.is_none
                       /\ response'.detail.labeled = Len(labeled)
                       /\ response'.detail.labeled > 0
                       /\ response'.detail.correct =
                              Cardinality({i \in 1..Len(labeled) :
                                              labeled[i].prediction = labeled[i].actual})
                       /\ response'.detail.correct <= response'.detail.labeled]_vars

\* C16 witness: an accuracy strictly between 0 and 1 was answered.
C16_Witness ==
    /\ response.op = "calculate_recent_accuracy"
    /\ ~response.detail.is_none
    /\ 0 < response.detail.correct
    /\ response.detail.correct < response.detail.labeled

\* The positions of the history that hold the record of the call stamped ts.
HistoryPositions(ts) ==
    {i \in 1..Len(prediction_history) : prediction_history[i].timestamp = ts}

\* C17: with callers interleaved inside log_prediction and no more calls
\* than the capacity, every call made is in the history exactly once as soon
\* as its append has run (and not before), and a step only appends: the
\* records already in the history stay as they are, in their order.
C17_ConcurrentAppendOnly ==
    /\ [](clock <= history_maxlen =>
            \A ts \in 1..clock :
                Cardinality(HistoryPositions(ts)) =
                    IF \E w \in WriterIds : writers[w].pc = "stamped" /\ writers[w].timestamp = ts
                    THEN 0 ELSE 1)
    /\ [][clock' <= history_maxlen =>
            /\ Len(prediction_history') \in {Len(prediction_history), Len(prediction_history) + 1}
            /\ SubSeq(prediction_history', 1, Len(prediction_history)) = prediction_history]_vars

\* C17 witness: two callers were inside log_prediction together and their
\* records are in the history in the order opposite to their timestamps.
C17_Witness ==
    /\ clock <= history_maxlen
    /\ Len(prediction_history) = 2
    /\ prediction_history[1].timestamp > prediction_history[2].timestamp

\* C18 as claimed: while a retraining job runs, a status query and a
\* classify request can be served (their handlers can take a step), so the
\* in-progress statuses can be observed.
C18_ServedDuringRetraining ==
    task.pc \in RunPcs =>
        /\ ENABLED GetRetrainStatus
        /\ ENABLED (\E request \in BuildingRequests : ClassifyBuilding(request))

C20_SameFeaturesAtInference ==
    trainers[ml_trainer].building_type_ensemble # "none" =>
        InferenceFeatureNames(trainers[ml_trainer])
            = FeatureNames(trainers[ml_trainer].building_type_ensemble)

\* The stages whose ensemble predict_global_properties calls predict on.
StagesUsedForPrediction(t) ==
    (IF t.frame_system_ensemble THEN {"frame_system"} ELSE {})
        \cup (IF t.building_type_ensemble # "none" THEN {"building_type"} ELSE {})

\* C21 as claimed: when predict_global_properties has used a stage's
\* ensemble, the shared selector and scaler it applied were last fitted by
\* the training of that same stage.
C21_StageServedWithOwnPreprocessing ==
    (response.op = "predict_global_properties" /\ response.detail # "raised") =>
        \A stage \in StagesUsedForPrediction(trainers[ml_trainer]) :
            trainers[ml_trainer].global_fit_stage = stage

\* The rows of a returned frame that were synthesized from an override.
SyntheticRowsOf(df) ==
    {df[k] : k \in {j \in 1..Len(df) : df[j].override # 0}}

\* C22 as claimed: every row synthesized from an override has the value of
\* the override's user_correction as its label and the feature names of the
\* base rows of its stage.
C22_SyntheticRowsMatchBaseRows ==
    (response.op = "prepare_enhanced_training_data" /\ ~response.detail.raised) =>
        /\ \A row \in SyntheticRowsOf(response.detail.global_df) :
              /\ row.label = <<"user_correction", "type">>
              /\ row.features = response.detail.global_df[1].features
        /\ \A row \in SyntheticRowsOf(response.detail.member_df) :
              /\ row.label = <<"user_correction", "tag">>
              /\ row.features = response.detail.member_df[1].features

\* C23 as claimed: extract_member_features and extract_global_features
\* return a feature vector, without raising, whatever optional field is
\* missing, null or zero.
C23_ExtractionNeverRaises ==
    response.op \in {"extract_member_features", "extract_global_features"} =>
        /\ response.detail.raised = "none"
        /\ response.detail.features # {}

\* C24 as claimed: the alternatives get_alternative_building_types returns
\* are strictly descending in probability and never hold the label returned
\* as the top prediction.
C24_AlternativesStrictlyDescending ==
    response.op = "get_alternative_building_types" =>
        LET alternatives == response.detail.alternatives
        IN  /\ \A k \in 1..(Len(alternatives) - 1) :
                  alternatives[k].confidence > alternatives[k + 1].confidence
            /\ \A k \in 1..Len(alternatives) :
                  alternatives[k].type # response.detail.top

ActivePerformRetraining ==
    {k \in 1..Len(background_tasks) :
        /\ background_tasks[k].func = "perform_retraining"
        /\ background_tasks[k].pc # "added"}

\* C26 as claimed: in ml_pipeline, while a run started through /retrain has
\* not ended a /retrain request is rejected, and at most one
\* perform_retraining task is active at a time.
C26_OnePerformRetraining ==
    /\ [](Cardinality(ActivePerformRetraining) <= 1)
    /\ [][(background_tasks # << >> /\ response' # response
              /\ response'.op = "start_retraining")
             => response'.code = 409]_vars

\* C27 as claimed: when preparing the data raises, the job goes to error
\* with the cause recorded, and the run neither continues to training, nor
\* swaps the live model, nor marks an override processed.
C27_DataPrepFailureEndsJob ==
    /\ [][(task.pc = "prepare" /\ task'.data_prep = "try_raises")
             => (retraining_status'.status = "error" /\ retraining_status'.error)]_vars
    /\ [](task.data_prep = "try_raises"
             => task.pc \notin {"train_member", "train_building", "mark_saving", "save"})
    /\ [][task.data_prep = "try_raises"
             => /\ ml_trainer' = ml_trainer
                /\ \A i \in 1..Len(user_override_database) :
                      user_override_database'[i].processed
                          = user_override_database[i].processed]_vars

\* An unprocessed override whose correction carries the label and whose
\* model_context holds the data its features are read from.
UsableOverride(o) ==
    /\ ~o.processed
    /\ \/ /\ o.correction_type = "BUILDING_TYPE"
          /\ "type" \in o.user_correction
          /\ o.model_context \cap {"geometry", "members", "nodes"} # {}
       \/ /\ o.correction_type = "MEMBER_TAG"
          /\ "tag" \in o.user_correction
          /\ "member" \in o.model_context

\* The rows of a frame that were appended for the override at position i.
RowsFor(df, i) ==
    {k \in 1..Len(df) : df[k].override = i}

\* C28 as claimed: prepare_enhanced_training_data, when its loop has run,
\* has appended exactly one row for each usable override and none for any
\* other record, processed records included.
C28_OneRowPerUsableOverride ==
    (response.op = "prepare_enhanced_training_data" /\ ~response.detail.fallback) =>
        \A i \in 1..Len(user_override_database) :
            Cardinality(RowsFor(response.detail.global_df, i))
                + Cardinality(RowsFor(response.detail.member_df, i))
                    = IF UsableOverride(user_override_database[i]) THEN 1 ELSE 0

\* The stages a trainer can serve: predict_member_roles answers, or
\* predict_global_properties answers with the stage's key.
ServedStages(t) ==
    (IF ~predict_member_roles(t).raised THEN {"member_role"} ELSE {})
        \cup (IF ~predict_global_properties(t).raised /\ predict_global_properties(t).FrameSystem
              THEN {"frame_system"} ELSE {})
        \cup (IF ~predict_global_properties(t).raised /\ predict_global_properties(t).BuildingType
              THEN {"building_type"} ELSE {})

\* C29 as claimed: in the step that completes a retraining run, every stage
\* the previous live model served is served by the new live model.
C29_RetrainingKeepsStages ==
    [][(retraining_status.status # "completed" /\ retraining_status'.status = "completed")
          => ServedStages(trainers[ml_trainer]) \subseteq ServedStages(trainers'[ml_trainer'])]_vars

\* C30: is_retraining is set exactly in the statuses starting,
\* preparing_data, training_models and saving_models; progress is 100 exactly
\* in the status completed; and progress does not decrease from one state to
\* the next while is_retraining stays set.
C30_StatusFieldsAgree ==
    /\ [](retraining_status.is_retraining
             <=> retraining_status.status \in {"starting", "preparing_data",
                                                "training_models", "saving_models"})
    /\ [](retraining_status.progress = 100 <=> retraining_status.status = "completed")
    /\ [][(retraining_status.is_retraining /\ retraining_status'.is_retraining)
             => retraining_status'.progress >= retraining_status.progress]_vars

\* C30 witness: a run has trained both stages, its progress at 70 in the
\* status training_models, and has yet to report saving_models.
C30_Witness ==
    /\ task.pc = "mark_saving"
    /\ task.model_types = {"member", "building"}
    /\ retraining_status.is_retraining
    /\ retraining_status.status = "training_models"
    /\ retraining_status.progress = 70

\* C10 as claimed: a processed flag goes from false to true only in the step
\* that completes a run, and only for a record the run synthesized a row from.
C10_ProcessedOnlyWhenConsumed ==
    [][\A i \in 1..Len(user_override_database) :
          (~user_override_database[i].processed /\ user_override_database'[i].processed)
              => /\ retraining_status'.status = "completed"
                 /\ i \in task.rows]_vars

====
